---- MODULE Spec2Model ----
(***************************************************************************)
(* A model of logseq-mcp: the TTL resource cache (utils/cache.py), the     *)
(* resource producers that sit on it (resources.py) and the page-path      *)
(* resolver (utils/filesystem.py).                                         *)
(*                                                                         *)
(* Spec            sequential use of the ResourceCache and of the two      *)
(*                 producers whose cache key is parameterised.             *)
(* SpecConcurrent  two get_or_fetch calls in flight on one cache, each     *)
(*                 interleaved statement by statement.                     *)
(* SpecGraph       one run of fetch_graph_structure over a list of pages,  *)
(*                 the remote client answering page by page.               *)
(* SpecJournals    one get_recent_journals request, no graph path being    *)
(*                 configured, over a list of pages at some time.          *)
(* SpecPath        one get_page_file_path call, for a page name, a graph   *)
(*                 path and the files the graph directory holds.           *)
(* SpecStartup     the start of the server under an environment, and the   *)
(*                 resource requests it then serves.                       *)
(* SpecTemplates   one get_templates request over the template pages, the  *)
(*                 blocks of the page and the result of the search.        *)
(***************************************************************************)
EXTENDS Integers, Sequences, FiniteSets, TLC

VARIABLES
    cache,      \* ResourceCache._cache: key -> [data, timestamp]
    ttl,        \* ResourceCache._ttl
    now,        \* the wall clock read by datetime.now()
    last,       \* the last call made: what went in, what came out
    pc,         \* SpecConcurrent: where each request stands in get_or_fetch
    req,        \* SpecConcurrent: each request's key and locals
    cache0,     \* SpecConcurrent: the cache when the requests were dispatched
    writes,     \* SpecConcurrent: the requests that stored, in store order
    all_pages,          \* SpecGraph: logseq_client.get_all_pages()
    idx,                \* SpecGraph: the page the loop of line 250 is at
    namespaces,         \* SpecGraph: namespace -> page names (defaultdict)
    orphaned_pages,     \* SpecGraph: the orphan list
    page_link_counts,   \* SpecGraph: <<page name, count>> in insertion order
    answers,            \* SpecGraph: what the remote client answered per page
    gpc,                \* SpecGraph: loop, report, returned or raised
    structure,          \* SpecGraph: what fetch_graph_structure returned
    jpages,     \* SpecJournals: logseq_client.get_all_pages()
    jnow,       \* SpecJournals: datetime.now(), as [y, m, d, secs]
    jpc,        \* SpecJournals: idle, ready or done
    jout,       \* SpecJournals: what get_recent_journals raised or returned
    arg_page_name,   \* SpecPath: the page name get_page_file_path is called with
    arg_graph_path,  \* SpecPath: the graph_path it is called with
    files,      \* SpecPath: the files under the graph root, as [dir, file]
    fpc,        \* SpecPath: idle, ready or done
    found,      \* SpecPath: what get_page_file_path raised or returned
    environ,            \* SpecStartup: os.environ's LOGSEQ_GRAPH_PATH
    LOGSEQ_GRAPH_PATH,  \* SpecStartup: the attribute of class Config
    spc,                \* SpecStartup: idle, start, imported or serving
    served,             \* SpecStartup: the resource requests served so far
    existing_pages,     \* SpecTemplates: the page names get_page finds
    page_blocks,        \* SpecTemplates: what get_page_blocks returns
    template_blocks,    \* SpecTemplates: what search_blocks returns
    tpc,                \* SpecTemplates: idle, ready or done
    templates           \* SpecTemplates: what get_templates returned

cacheVars == <<cache, ttl, now, last>>

concVars == <<pc, req, cache0, writes>>

graphVars ==
    <<all_pages, idx, namespaces, orphaned_pages, page_link_counts, answers,
      gpc, structure>>

journalVars == <<jpages, jnow, jpc, jout>>

pathVars == <<arg_page_name, arg_graph_path, files, fpc, found>>

startupVars == <<environ, LOGSEQ_GRAPH_PATH, spc, served>>

templateVars == <<existing_pages, page_blocks, template_blocks, tpc, templates>>

\* What the sequential calls of Spec leave alone.
notCacheVars ==
    <<concVars, graphVars, journalVars, pathVars, startupVars, templateVars>>

\* What the concurrent requests of SpecConcurrent leave alone.
notConcVars == <<graphVars, journalVars, pathVars, startupVars, templateVars>>

\* What fetch_graph_structure leaves alone.
notGraphVars ==
    <<cache, ttl, now, last, concVars, journalVars, pathVars, startupVars,
      templateVars>>

\* What get_recent_journals leaves alone.
notJournalVars ==
    <<ttl, now, last, concVars, graphVars, pathVars, startupVars, templateVars>>

\* What get_page_file_path leaves alone.
notPathVars ==
    <<cache, ttl, now, last, concVars, graphVars, journalVars, startupVars,
      templateVars>>

\* What the start of the server leaves alone.
notStartupVars ==
    <<cache, ttl, now, last, concVars, graphVars, journalVars, pathVars,
      templateVars>>

\* What get_templates leaves alone.
notTemplateVars ==
    <<ttl, now, last, concVars, graphVars, journalVars, pathVars, startupVars>>

vars ==
    <<cache, ttl, now, last, concVars, graphVars, journalVars, pathVars,
      startupVars, templateVars>>

----------------------------------------------------------------------------
(* Bounds of the model.                                                    *)

MaxTime == 2

MaxTtl == 2

\* How long a fetcher may take, in ticks.
FetchDelays == {0, 1}

Keys == {"", "graph_info", "recent_pages_20"}

Values == {"v1", "v2"}

Times == 0..MaxTime

----------------------------------------------------------------------------
(* Python values.                                                          *)

None == "None"

\* An Optional[str] argument: None, or a string.
OptionalKeys == {[given |-> FALSE, key |-> ""]} \cup {[given |-> TRUE, key |-> k] : k \in Keys}

\* `if key:` on an Optional[str]: None and the empty string are both falsy.
Truthy(arg) == arg.given /\ arg.key # ""

\* The record of one call: who was called with which key (given: the key
\* argument was passed), how often the fetcher ran, what was raised and
\* returned, the cache and the clock before the call, and the call before it.
Call(op, k, given, calls, raised, result) ==
    [op |-> op, key |-> k, given |-> given, calls |-> calls, raised |-> raised,
     result |-> result, pre |-> cache, t0 |-> now,
     after |-> [op |-> last.op, key |-> last.key, given |-> last.given]]

\* What a fetcher() call does: it returns a value or it raises.
FetchOutcomes == {[raised |-> FALSE, value |-> v] : v \in Values} \cup {[raised |-> TRUE, value |-> None]}

EmptyCache == [k \in {} |-> None]

\* dict[key] = value
DictSet(d, k, v) == [x \in (DOMAIN d) \cup {k} |-> IF x = k THEN v ELSE d[x]]

\* dict.pop(key, None)
DictPop(d, k) == [x \in (DOMAIN d) \ {k} |-> d[x]]

----------------------------------------------------------------------------
(* ResourceCache.                                                          *)

IsFreshInclusive(c, k, t) == k \in DOMAIN c /\ t - c[k].timestamp <= ttl

\* get_or_fetch, lines 30-33: the entry exists and is younger than the TTL.
IsFresh(c, k, t) == k \in DOMAIN c /\ t - c[k].timestamp < ttl

CacheAfterFetchEvicting(c, k, outcome, t) ==
    IF outcome.raised THEN DictPop(c, k)
    ELSE DictSet(c, k, [data |-> outcome.value, timestamp |-> t])

\* get_or_fetch, lines 36-37: fetcher() runs; when it returns, its value is
\* stored with the time read after it; when it raises, line 37 is not reached.
CacheAfterFetch(c, k, outcome, t) ==
    IF outcome.raised THEN c
    ELSE DictSet(c, k, [data |-> outcome.value, timestamp |-> t])

\* One get_or_fetch(k, fetcher) call made by `op`; the fetcher takes d ticks.
CallGetOrFetch(op, k, outcome, d) ==
    IF IsFresh(cache, k, now)
    THEN /\ last' = Call(op, k, TRUE, 0, None, cache[k].data)
         /\ UNCHANGED <<cache, ttl, now, notCacheVars>>
    ELSE /\ now + d <= MaxTime
         /\ now' = now + d
         /\ cache' = CacheAfterFetch(cache, k, outcome, now + d)
         /\ last' = Call(op, k, TRUE, 1,
                         IF outcome.raised THEN "Exception" ELSE None, outcome.value)
         /\ UNCHANGED <<ttl, notCacheVars>>

GetOrFetch ==
    \E k \in Keys, outcome \in FetchOutcomes, d \in FetchDelays :
        CallGetOrFetch("get_or_fetch", k, outcome, d)

\* invalidate, lines 47-50: a truthy key is popped, anything else clears.
CacheAfterInvalidate(c, arg) ==
    IF Truthy(arg) THEN DictPop(c, arg.key) ELSE EmptyCache

Invalidate ==
    \E arg \in OptionalKeys :
        /\ cache' = CacheAfterInvalidate(cache, arg)
        /\ last' = Call("invalidate", arg.key, arg.given, 0, None, None)
        /\ UNCHANGED <<ttl, now, notCacheVars>>

\* Time passes between two calls.
Tick ==
    /\ now < MaxTime
    /\ now' = now + 1
    /\ last' = Call("tick", None, FALSE, 0, None, None)
    /\ UNCHANGED <<cache, ttl, notCacheVars>>

----------------------------------------------------------------------------
(* The producers get_recent_pages and get_recent_journals (resources.py).  *)
(* Each builds its cache key with an f-string evaluated in the producer's  *)
(* own scope, then calls cache.get_or_fetch(key, closure).                 *)

\* Names bound at module level of resources.py (imports and definitions).
ModuleNames ==
    {"datetime", "timedelta", "Dict", "List", "Any", "Optional", "defaultdict",
     "Path", "mcp", "LogseqAPIClient", "config", "ResourceCache",
     "get_page_file_path", "get_file_metadata", "get_graph_directories",
     "scan_graph_files", "is_journal_page_name", "log", "logseq_client", "cache",
     "get_graph_info", "get_recent_pages", "get_recent_journals",
     "get_templates", "get_graph_structure"}

\* Names bound in the body of each function: a closure's locals belong to the
\* closure, not to the producer that defines it.
LocalNames(fn) ==
    CASE fn = "get_recent_pages" -> {"fetch_recent_pages"}
      [] fn = "fetch_recent_pages" ->
            {"limit", "pages", "pages_with_timestamps", "page", "file_path",
             "metadata", "page_info"}
      [] fn = "get_recent_journals" -> {"fetch_recent_journals"}
      [] fn = "fetch_recent_journals" ->
            {"days", "all_pages", "journal_pages", "cutoff_date",
             "cutoff_timestamp", "recent_journals", "page", "file_path",
             "metadata", "journal_info", "journal_day", "page_date"}
      [] OTHER -> {}

\* Name lookup in a top-level function: its locals, then the module.
Resolves(name, fn) == name \in LocalNames(fn) \cup ModuleNames

limit == 20

days == 7

\* f"recent_pages_{limit}" and f"recent_journals_{days}"
RecentPagesKey == "recent_pages_" \o ToString(limit)

RecentJournalsKey == "recent_journals_" \o ToString(days)

\* A producer: the f-string is evaluated first; a name it cannot resolve
\* raises NameError before the cache is called.
Producer(fn, name, key) ==
    IF Resolves(name, fn)
    THEN \E outcome \in FetchOutcomes, d \in FetchDelays :
            CallGetOrFetch(fn, key, outcome, d)
    ELSE /\ last' = Call(fn, None, FALSE, 0, "NameError", None)
         /\ UNCHANGED <<cache, ttl, now, notCacheVars>>

GetRecentPages == Producer("get_recent_pages", "limit", RecentPagesKey)

GetRecentJournals == Producer("get_recent_journals", "days", RecentJournalsKey)

NoLast ==
    [op |-> "init", key |-> None, given |-> FALSE, calls |-> 0,
     raised |-> None, result |-> None, pre |-> EmptyCache, t0 |-> 0,
     after |-> [op |-> "init", key |-> None, given |-> FALSE]]

\* No concurrent request is in flight.
ConcIdle ==
    /\ pc = <<>>
    /\ req = <<>>
    /\ cache0 = EmptyCache
    /\ writes = <<>>

\* No graph-structure analysis is running.
GraphIdle ==
    /\ all_pages = <<>>
    /\ idx = 0
    /\ namespaces = <<>>
    /\ orphaned_pages = <<>>
    /\ page_link_counts = <<>>
    /\ answers = <<>>
    /\ gpc = "idle"
    /\ structure = None

\* No get_recent_journals request is modelled.
JournalsIdle ==
    /\ jpages = <<>>
    /\ jnow = [y |-> 2024, m |-> 1, d |-> 1, secs |-> 0]
    /\ jpc = "idle"
    /\ jout = [raised |-> None, value |-> <<>>]

\* None where a Path is expected (Optional[Path]).
NoPath == [root |-> None, dir |-> None, file |-> <<>>]

\* No get_page_file_path call is modelled.
PathIdle ==
    /\ arg_page_name = <<>>
    /\ arg_graph_path = None
    /\ files = {}
    /\ fpc = "idle"
    /\ found = [raised |-> None, value |-> NoPath]

\* No start of the server is modelled.
StartupIdle ==
    /\ environ = None
    /\ LOGSEQ_GRAPH_PATH = None
    /\ spc = "idle"
    /\ served = <<>>

\* No get_templates request is modelled.
TemplatesIdle ==
    /\ existing_pages = {}
    /\ page_blocks = <<>>
    /\ template_blocks = <<>>
    /\ tpc = "idle"
    /\ templates = <<>>

Init ==
    /\ cache = EmptyCache
    /\ ttl \in 1..MaxTtl
    /\ now = 0
    /\ last = NoLast
    /\ ConcIdle
    /\ GraphIdle
    /\ JournalsIdle
    /\ PathIdle
    /\ StartupIdle
    /\ TemplatesIdle

Next ==
    \/ GetOrFetch
    \/ Invalidate
    \/ Tick
    \/ GetRecentPages
    \/ GetRecentJournals

Spec == Init /\ [][Next]_vars

----------------------------------------------------------------------------
(* Two requests on one cache (SpecConcurrent).  The cache has no lock: a   *)
(* request runs get_or_fetch as three steps, the lookup (lines 30-33), the *)
(* fetcher call (line 36) and the store (lines 37-38), and the other       *)
(* request may run between any two of them.                                *)

Procs == {1, 2}

\* What the fetcher of request p returns.
FetchResult(p) == IF p = 1 THEN "fetched1" ELSE "fetched2"

\* The caches a request may find: each key absent or stored at time 0.
StoredAtZero ==
    UNION {[S -> {[data |-> v, timestamp |-> 0] : v \in Values}] : S \in SUBSET Keys}

CacheAfterStoreIfAbsent(c, k, data, t) ==
    IF k \in DOMAIN c THEN c ELSE DictSet(c, k, [data |-> data, timestamp |-> t])

\* get_or_fetch, line 37: self._cache[key] = (data, datetime.now())
CacheAfterStore(c, k, data, t) == DictSet(c, k, [data |-> data, timestamp |-> t])

\* Lines 30-33: a fresh entry is returned, anything else goes on to fetch.
Lookup(p) ==
    /\ pc[p] = "lookup"
    /\ IF IsFresh(cache, req[p].key, now)
       THEN /\ pc' = [pc EXCEPT ![p] = "done"]
            /\ req' = [req EXCEPT ![p].result = cache[req[p].key].data]
       ELSE /\ pc' = [pc EXCEPT ![p] = "fetch"]
            /\ UNCHANGED req
    /\ UNCHANGED <<cache, ttl, now, last, cache0, writes, notConcVars>>

\* Line 36: data = fetcher(), which returns or raises.
Fetch(p) ==
    /\ pc[p] = "fetch"
    /\ \/ /\ pc' = [pc EXCEPT ![p] = "store"]
          /\ req' = [req EXCEPT ![p].data = FetchResult(p), ![p].calls = @ + 1]
       \/ /\ pc' = [pc EXCEPT ![p] = "raised"]
          /\ req' = [req EXCEPT ![p].calls = @ + 1]
    /\ UNCHANGED <<cache, ttl, now, last, cache0, writes, notConcVars>>

\* Lines 37-38: the store, then the return.
Store(p) ==
    /\ pc[p] = "store"
    /\ cache' = CacheAfterStore(cache, req[p].key, req[p].data, now)
    /\ pc' = [pc EXCEPT ![p] = "done"]
    /\ req' = [req EXCEPT ![p].result = req[p].data]
    /\ writes' = Append(writes, p)
    /\ UNCHANGED <<ttl, now, last, cache0, notConcVars>>

\* Time passes while the requests are in flight.
TickConcurrent ==
    /\ now < MaxTime
    /\ now' = now + 1
    /\ UNCHANGED <<cache, ttl, last, pc, req, cache0, writes, notConcVars>>

InitConcurrent ==
    /\ cache \in StoredAtZero
    /\ cache0 = cache
    /\ ttl \in 1..MaxTtl
    /\ now = 0
    /\ last = NoLast
    /\ pc = [p \in Procs |-> "lookup"]
    /\ req \in [Procs -> {[key |-> k, data |-> None, result |-> None, calls |-> 0] : k \in Keys}]
    /\ writes = <<>>
    /\ GraphIdle
    /\ JournalsIdle
    /\ PathIdle
    /\ StartupIdle
    /\ TemplatesIdle

NextConcurrent ==
    \/ \E p \in Procs : Lookup(p)
    \/ \E p \in Procs : Fetch(p)
    \/ \E p \in Procs : Store(p)
    \/ TickConcurrent

SpecConcurrent == InitConcurrent /\ [][NextConcurrent]_vars

----------------------------------------------------------------------------
(* Strings.  A Python str is modelled as the sequence of its characters,   *)
(* so that splitting, replacing and searching are computed.                *)

\* ch in s
HasChar(s, ch) == \E i \in 1..Len(s) : s[i] = ch

\* The index of the last ch in s (0 when there is none).
LastIndexOf(s, ch) ==
    IF HasChar(s, ch) THEN CHOOSE i \in 1..Len(s) :
                              s[i] = ch /\ \A j \in (i + 1)..Len(s) : s[j] # ch
    ELSE 0

\* s.rsplit(ch, 1)[0]: what stands before the last ch, all of s without one.
RSplitHead(s, ch) ==
    IF HasChar(s, ch) THEN SubSeq(s, 1, LastIndexOf(s, ch) - 1) ELSE s

\* sub in s, for a two-character sub such as '[['
HasPair(s, a, b) == \E i \in 1..(Len(s) - 1) : s[i] = a /\ s[i + 1] = b

\* seq[:n]
Truncate(seq, n) == SubSeq(seq, 1, IF Len(seq) < n THEN Len(seq) ELSE n)

\* The set of elements of a sequence.
Range(seq) == {seq[i] : i \in 1..Len(seq)}

----------------------------------------------------------------------------
(* Config (config.py): the attributes the class defines.                   *)

ConfigAttrs ==
    {"LOGSEQ_API_URL", "LOGSEQ_TOKEN", "LOGSEQ_GRAPH_PATH", "CACHE_TTL",
     "MAX_BATCH_SIZE", "REQUEST_TIMEOUT"}

\* The default of each numeric attribute; an attribute the class does not
\* define has no value, and reading it raises AttributeError.
ConfigValue(attr) ==
    CASE attr = "CACHE_TTL" -> 300
      [] attr = "MAX_BATCH_SIZE" -> 50
      [] attr = "REQUEST_TIMEOUT" -> 30

----------------------------------------------------------------------------
(* fetch_graph_structure (resources.py, lines 240-307).                    *)

MaxPages == 3

MaxRefs == 2

\* The bucket of pages that have no namespace: the literal '_root'.
RootKey == <<"_", "r", "o", "o", "t">>

\* Page names the remote client may report.
PageNames ==
    {<<"A", "/", "1">>, <<"A", "/", "2">>, <<"B", "/", "1">>,
     <<"R", "o", "o", "t", "1">>, <<"A", "/", "B", "/", "1">>,
     <<"_", "r", "o", "o", "t", "/", "x">>}

\* A page as the remote client reports it; page names are unique in a graph.
Pages == {[name |-> n, journal |-> (n = <<"R", "o", "o", "t", "1">>)] : n \in PageNames}

PageLists ==
    {l \in UNION {[1..n -> Pages] : n \in 0..MaxPages} :
        \A i, j \in 1..Len(l) : i # j => l[i] # l[j]}

\* The block lists get_page_blocks may return: the content of each block.
BlockLists ==
    {<<>>,
     << <<"a", "b">> >>,
     << <<"a", "[", "x", "[">> >>,
     << <<"a">>, <<"s", "e", "e", " ", "[", "[", "B", "]", "]">> >>}

NoBlocks == [asked |-> FALSE, raised |-> FALSE, blocks |-> <<>>]

\* What the remote client does for one page: get_page_linked_references
\* raises or returns a list of some length; get_page_blocks is asked only
\* when that length is 0, and raises or returns a block list.
RemoteAnswers ==
    {[refs_raised |-> TRUE, refs |-> 0, blocks |-> NoBlocks]}
    \cup {[refs_raised |-> FALSE, refs |-> n, blocks |-> NoBlocks] : n \in 1..MaxRefs}
    \cup {[refs_raised |-> FALSE, refs |-> 0,
           blocks |-> [asked |-> TRUE, raised |-> TRUE, blocks |-> <<>>]]}
    \cup {[refs_raised |-> FALSE, refs |-> 0,
           blocks |-> [asked |-> TRUE, raised |-> FALSE, blocks |-> b]] : b \in BlockLists}

\* Lines 254-258: the namespace a page name is filed under.
NamespaceOf(page_name) ==
    IF HasChar(page_name, "/") THEN RSplitHead(page_name, "/") ELSE RootKey

\* namespaces[ns].append(page_name) on a defaultdict(list)
AppendTo(ns, key, page_name) ==
    DictSet(ns, key, Append(IF key \in DOMAIN ns THEN ns[key] ELSE <<>>, page_name))

\* page_link_counts[page_name] = link_count, keeping insertion order.
SetCount(counts, page_name, n) ==
    IF \E i \in 1..Len(counts) : counts[i][1] = page_name
    THEN [i \in 1..Len(counts) |->
             IF counts[i][1] = page_name THEN <<page_name, n>> ELSE counts[i]]
    ELSE Append(counts, <<page_name, n>>)

\* Line 270: any('[[' in block.get('content', '') for block in blocks)
HasOutgoing(blocks) == \E i \in 1..Len(blocks) : HasPair(blocks[i], "[", "[")

LinkCountsAfterDroppingOnError(counts, page_name, ans) ==
    IF ans.refs_raised \/ ans.blocks.raised THEN counts
    ELSE SetCount(counts, page_name, ans.refs)

\* Lines 262-264 inside the try: the count is recorded as soon as the
\* linked-references query has returned, before the blocks query is made.
LinkCountsAfter(counts, page_name, ans) ==
    IF ans.refs_raised THEN counts ELSE SetCount(counts, page_name, ans.refs)

\* Lines 267-272: a page with no reference whose blocks were read and hold
\* no '[[' is appended to the orphans; an exception on the way skips it.
OrphansAfter(orphans, page_name, ans) ==
    IF /\ ~ans.refs_raised
       /\ ans.refs = 0
       /\ ~ans.blocks.raised
       /\ ~HasOutgoing(ans.blocks.blocks)
    THEN Append(orphans, page_name)
    ELSE orphans

\* One iteration of the loop of line 250; the except clause of line 273
\* logs and goes on with the next page.
ProcessPage ==
    /\ gpc = "loop"
    /\ idx <= Len(all_pages)
    /\ \E ans \in RemoteAnswers :
        LET page_name == all_pages[idx].name IN
            /\ namespaces' = AppendTo(namespaces, NamespaceOf(page_name), page_name)
            /\ page_link_counts' = LinkCountsAfter(page_link_counts, page_name, ans)
            /\ orphaned_pages' = OrphansAfter(orphaned_pages, page_name, ans)
            /\ answers' = Append(answers, ans)
    /\ idx' = idx + 1
    /\ gpc' = IF idx = Len(all_pages) THEN "report" ELSE "loop"
    /\ UNCHANGED <<all_pages, structure, notGraphVars>>

\* Insert item into a list sorted by count, descending, after its equals.
RECURSIVE InsertByCount(_, _)
InsertByCount(sorted, item) ==
    IF sorted = <<>> THEN <<item>>
    ELSE IF Head(sorted)[2] >= item[2]
         THEN <<Head(sorted)>> \o InsertByCount(Tail(sorted), item)
         ELSE <<item>> \o sorted

\* sorted(items, key=lambda x: x[1], reverse=True): stable.
RECURSIVE SortedByCountDesc(_)
SortedByCountDesc(items) ==
    IF items = <<>> THEN <<>>
    ELSE InsertByCount(SortedByCountDesc(SubSeq(items, 1, Len(items) - 1)),
                       items[Len(items)])

\* The order of the characters the page names use (code points).
CodePoint(ch) ==
    CASE ch = " " -> 32 [] ch = "/" -> 47 [] ch = "1" -> 49 [] ch = "2" -> 50
      [] ch = "A" -> 65 [] ch = "B" -> 66 [] ch = "R" -> 82 [] ch = "_" -> 95
      [] ch = "o" -> 111 [] ch = "r" -> 114 [] ch = "t" -> 116 [] ch = "x" -> 120

\* str <= str
RECURSIVE StrLessEq(_, _)
StrLessEq(a, b) ==
    IF a = <<>> THEN TRUE
    ELSE IF b = <<>> THEN FALSE
    ELSE IF Head(a) = Head(b) THEN StrLessEq(Tail(a), Tail(b))
    ELSE CodePoint(Head(a)) < CodePoint(Head(b))

\* Insert a string into a sorted list of strings.
RECURSIVE InsertSorted(_, _)
InsertSorted(sorted, item) ==
    IF sorted = <<>> THEN <<item>>
    ELSE IF StrLessEq(Head(sorted), item)
         THEN <<Head(sorted)>> \o InsertSorted(Tail(sorted), item)
         ELSE <<item>> \o sorted

\* sorted(pages)
RECURSIVE SortedNames(_)
SortedNames(names) ==
    IF names = <<>> THEN <<>>
    ELSE InsertSorted(SortedNames(SubSeq(names, 1, Len(names) - 1)),
                      names[Len(names)])

\* Line 296: len(namespaces.get('_root', []))
RootPages(ns) == IF RootKey \in DOMAIN ns THEN Len(ns[RootKey]) ELSE 0

\* Lines 288-295: every namespace but '_root', with its count and its pages.
ReportedNamespaces(ns, max_pages) ==
    [key \in (DOMAIN ns) \ {RootKey} |->
        [page_count |-> Len(ns[key]),
         pages |-> Truncate(SortedNames(ns[key]), max_pages)]]

\* Lines 277-307: the ranking and the summary.  config.MAX_LINKED_PAGES is
\* read first (line 281); an attribute Config does not define raises
\* AttributeError, which nothing in fetch_graph_structure catches.
Report ==
    /\ gpc = "report"
    /\ IF {"MAX_LINKED_PAGES", "MAX_PAGES_PER_NAMESPACE", "MAX_ORPHANED_PAGES"}
            \subseteq ConfigAttrs
       THEN /\ gpc' = "returned"
            /\ structure' =
                 [total_pages |-> Len(all_pages),
                  journal_pages |-> Cardinality({i \in 1..Len(all_pages) : all_pages[i].journal}),
                  regular_pages |-> Cardinality({i \in 1..Len(all_pages) : ~all_pages[i].journal}),
                  namespaces |->
                      ReportedNamespaces(namespaces, ConfigValue("MAX_PAGES_PER_NAMESPACE")),
                  root_pages |-> RootPages(namespaces),
                  orphaned_pages |->
                      [count |-> Len(orphaned_pages),
                       pages |-> Truncate(orphaned_pages, ConfigValue("MAX_ORPHANED_PAGES"))],
                  most_linked_pages |->
                      Truncate(SortedByCountDesc(page_link_counts),
                               ConfigValue("MAX_LINKED_PAGES"))]
       ELSE /\ gpc' = "raised"
            /\ structure' = "AttributeError"
    /\ UNCHANGED <<all_pages, idx, namespaces, orphaned_pages, page_link_counts,
                   answers, notGraphVars>>

InitGraph ==
    /\ all_pages \in PageLists
    /\ idx = 1
    /\ namespaces = <<>>
    /\ orphaned_pages = <<>>
    /\ page_link_counts = <<>>
    /\ answers = <<>>
    /\ gpc = IF all_pages = <<>> THEN "report" ELSE "loop"
    /\ structure = None
    /\ cache = EmptyCache
    /\ ttl = 1
    /\ now = 0
    /\ last = NoLast
    /\ ConcIdle
    /\ JournalsIdle
    /\ PathIdle
    /\ StartupIdle
    /\ TemplatesIdle

NextGraph ==
    \/ ProcessPage
    \/ Report

SpecGraph == InitGraph /\ [][NextGraph]_vars

----------------------------------------------------------------------------
(* Dates (datetime, as resources.py uses it): the proleptic Gregorian      *)
(* calendar, a datetime being a date and the seconds into its day.         *)

IsLeap(y) == (y % 4 = 0) /\ ((y % 100 # 0) \/ (y % 400 = 0))

DaysInMonth(y, m) ==
    IF m = 2 THEN (IF IsLeap(y) THEN 29 ELSE 28)
    ELSE IF m \in {4, 6, 9, 11} THEN 30 ELSE 31

RECURSIVE DaysBeforeMonth(_, _)
DaysBeforeMonth(y, m) ==
    IF m = 1 THEN 0 ELSE DaysBeforeMonth(y, m - 1) + DaysInMonth(y, m - 1)

\* date.toordinal(): 1 for 0001-01-01.
Ordinal(y, m, d) ==
    LET p == y - 1
    IN  p * 365 + (p \div 4) - (p \div 100) + (p \div 400) + DaysBeforeMonth(y, m) + d

\* a >= b for two datetimes [y, m, d, secs]
DatetimeGeq(a, b) ==
    \/ Ordinal(a.y, a.m, a.d) > Ordinal(b.y, b.m, b.d)
    \/ Ordinal(a.y, a.m, a.d) = Ordinal(b.y, b.m, b.d) /\ a.secs >= b.secs

\* str(n) for an int n >= 0: its decimal digits.
RECURSIVE DigitsOf(_)
DigitsOf(n) == IF n < 10 THEN <<n>> ELSE DigitsOf(n \div 10) \o <<n % 10>>

\* The digit at position i, -1 past the end.
DigitAt(ds, i) == IF i >= 1 /\ i <= Len(ds) THEN ds[i] ELSE -1

\* %m at position p, the alternatives 1[0-2] | 0[1-9] | [1-9] in order.
MonthMatches(ds, p) ==
    (IF DigitAt(ds, p) = 1 /\ DigitAt(ds, p + 1) \in 0..2
     THEN <<[value |-> 10 + ds[p + 1], len |-> 2]>> ELSE <<>>)
    \o (IF DigitAt(ds, p) = 0 /\ DigitAt(ds, p + 1) \in 1..9
        THEN <<[value |-> ds[p + 1], len |-> 2]>> ELSE <<>>)
    \o (IF DigitAt(ds, p) \in 1..9
        THEN <<[value |-> ds[p], len |-> 1]>> ELSE <<>>)

\* %d at position p, the alternatives 3[0-1] | [1-2]\d | 0[1-9] | [1-9].
DayMatches(ds, p) ==
    (IF DigitAt(ds, p) = 3 /\ DigitAt(ds, p + 1) \in 0..1
     THEN <<[value |-> 30 + ds[p + 1], len |-> 2]>> ELSE <<>>)
    \o (IF DigitAt(ds, p) \in 1..2 /\ DigitAt(ds, p + 1) \in 0..9
        THEN <<[value |-> 10 * ds[p] + ds[p + 1], len |-> 2]>> ELSE <<>>)
    \o (IF DigitAt(ds, p) = 0 /\ DigitAt(ds, p + 1) \in 1..9
        THEN <<[value |-> ds[p + 1], len |-> 2]>> ELSE <<>>)
    \o (IF DigitAt(ds, p) \in 1..9
        THEN <<[value |-> ds[p], len |-> 1]>> ELSE <<>>)

NoDate == [ok |-> FALSE, y |-> 0, m |-> 0, d |-> 0]

\* datetime.strptime(s, '%Y%m%d') on a string of digits: four digits of
\* year, then the first way the month and the day patterns match; what is
\* left over, or a day the month does not have, is a ValueError (ok: FALSE).
Strptime(ds) ==
    LET months == MonthMatches(ds, 5)
        usable == {i \in 1..Len(months) : DayMatches(ds, 5 + months[i].len) # <<>>}
    IN  IF Len(ds) < 4 \/ usable = {} THEN NoDate
        ELSE LET i == CHOOSE x \in usable : \A z \in usable : x <= z
                 day == DayMatches(ds, 5 + months[i].len)[1]
                 y == 1000 * ds[1] + 100 * ds[2] + 10 * ds[3] + ds[4]
             IN  IF \/ 4 + months[i].len + day.len # Len(ds)
                    \/ y < 1
                    \/ day.value > DaysInMonth(y, months[i].value)
                 THEN NoDate
                 ELSE [ok |-> TRUE, y |-> y, m |-> months[i].value, d |-> day.value]

----------------------------------------------------------------------------
(* get_recent_journals with config.LOGSEQ_GRAPH_PATH unset (resources.py,  *)
(* lines 117-175).                                                         *)

MaxJournalPages == 2

\* The most resource requests a started server is followed through.
MaxRequests == 2

\* The most blocks a template page or a search result has.
MaxBlocks == 2

\* What a page may carry: the 'journal?' flag and, when has_day, an integer
\* journalDay (spec section 3: journalDay?: int).
JournalDays == {20240101, 20231229, 20231228, 20240229, 20230229, 20241301, 123, 0}

PageBodies ==
    {[journal |-> TRUE, has_day |-> TRUE, journalDay |-> n] : n \in JournalDays}
    \cup {[journal |-> TRUE, has_day |-> FALSE, journalDay |-> 0],
          [journal |-> FALSE, has_day |-> TRUE, journalDay |-> 20240101],
          [journal |-> FALSE, has_day |-> FALSE, journalDay |-> 0]}

\* The times of a request.
Nows ==
    {[y |-> 2024, m |-> 1, d |-> 5, secs |-> 0],
     [y |-> 2024, m |-> 1, d |-> 5, secs |-> 43200],
     [y |-> 2024, m |-> 1, d |-> 4, secs |-> 43200],
     [y |-> 2024, m |-> 2, d |-> 1, secs |-> 0],
     [y |-> 2024, m |-> 3, d |-> 7, secs |-> 0]}

\* datetime - timedelta(days=n)
MinusDays(dt, n) ==
    LET target == Ordinal(dt.y, dt.m, dt.d) - n
        y == CHOOSE c \in {dt.y - 1, dt.y} :
                 target > Ordinal(c, 1, 1) - 1 /\ target < Ordinal(c + 1, 1, 1)
        m == CHOOSE c \in 1..12 :
                 target - Ordinal(y, c, 1) \in 0..(DaysInMonth(y, c) - 1)
    IN  [y |-> y, m |-> m, d |-> target - Ordinal(y, m, 1) + 1, secs |-> dt.secs]

\* Lines 159-168: the page has a truthy journalDay that parses to a date
\* not before the cutoff.
IsRecent(page, cutoff_date) ==
    /\ page.has_day
    /\ page.journalDay # 0
    /\ LET page_date == Strptime(DigitsOf(page.journalDay))
       IN  /\ page_date.ok
           /\ DatetimeGeq([y |-> page_date.y, m |-> page_date.m,
                           d |-> page_date.d, secs |-> 0], cutoff_date)

\* [x for x in seq if Keep(x)]
RECURSIVE Filter(_, _)
Filter(seq, keep) ==
    IF seq = <<>> THEN <<>>
    ELSE (IF Head(seq) \in keep THEN <<Head(seq)>> ELSE <<>>) \o Filter(Tail(seq), keep)

\* Insert a page into a list sorted by journalDay, descending, after its equals.
RECURSIVE InsertByDay(_, _)
InsertByDay(sorted, page) ==
    IF sorted = <<>> THEN <<page>>
    ELSE IF Head(sorted).journalDay >= page.journalDay
         THEN <<Head(sorted)>> \o InsertByDay(Tail(sorted), page)
         ELSE <<page>> \o sorted

\* Line 171: list.sort(key=journalDay, reverse=True): stable.
RECURSIVE SortedByDayDesc(_)
SortedByDayDesc(pages) ==
    IF pages = <<>> THEN <<>>
    ELSE InsertByDay(SortedByDayDesc(SubSeq(pages, 1, Len(pages) - 1)),
                     pages[Len(pages)])

\* The closure fetch_recent_journals, lines 125-173, else branch of line 139.
FetchRecentJournals(all, dt) ==
    LET journal_pages == Filter(all, {p \in Range(all) : p.journal})
        cutoff_date == MinusDays(dt, days)
    IN  SortedByDayDesc(
            Filter(journal_pages, {p \in Range(journal_pages) : IsRecent(p, cutoff_date)}))

\* get_recent_journals: the key f-string of line 175 is evaluated first,
\* then cache.get_or_fetch(key, fetch_recent_journals).
RequestRecentJournals ==
    /\ jpc = "ready"
    /\ jpc' = "done"
    /\ IF Resolves("days", "get_recent_journals")
       THEN IF IsFresh(cache, RecentJournalsKey, now)
            THEN /\ jout' = [raised |-> None, value |-> cache[RecentJournalsKey].data]
                 /\ UNCHANGED cache
            ELSE /\ jout' = [raised |-> None, value |-> FetchRecentJournals(jpages, jnow)]
                 /\ cache' = CacheAfterStore(cache, RecentJournalsKey,
                                             FetchRecentJournals(jpages, jnow), now)
       ELSE /\ jout' = [raised |-> "NameError", value |-> <<>>]
            /\ UNCHANGED cache
    /\ UNCHANGED <<jpages, jnow, notJournalVars>>

InitJournals ==
    /\ \E n \in 0..MaxJournalPages : \E bodies \in [1..n -> PageBodies] :
           jpages = [i \in 1..n |-> [name |-> i, journal |-> bodies[i].journal,
                                     has_day |-> bodies[i].has_day,
                                     journalDay |-> bodies[i].journalDay]]
    /\ jnow \in Nows
    /\ jpc = "ready"
    /\ jout = [raised |-> None, value |-> <<>>]
    /\ cache = EmptyCache
    /\ ttl = 1
    /\ now = 0
    /\ last = NoLast
    /\ ConcIdle
    /\ GraphIdle
    /\ PathIdle
    /\ StartupIdle
    /\ TemplatesIdle

NextJournals == RequestRecentJournals

SpecJournals == InitJournals /\ [][NextJournals]_vars

----------------------------------------------------------------------------
(* Characters, as str, re and _strptime treat them.  The names modelled    *)
(* are ASCII: letters, digits, white space and punctuation.                *)

UpperCase ==
    <<"A", "B", "C", "D", "E", "F", "G", "H", "I", "J", "K", "L", "M",
      "N", "O", "P", "Q", "R", "S", "T", "U", "V", "W", "X", "Y", "Z">>

LowerCase ==
    <<"a", "b", "c", "d", "e", "f", "g", "h", "i", "j", "k", "l", "m",
      "n", "o", "p", "q", "r", "s", "t", "u", "v", "w", "x", "y", "z">>

DigitChars == <<"0", "1", "2", "3", "4", "5", "6", "7", "8", "9">>

DigitSet == Range(DigitChars)

\* What \s matches.
Whitespace == {" ", "\t", "\n", "\r"}

\* c.lower(), which is how re.IGNORECASE and _strptime compare letters.
Lower(c) ==
    IF \E i \in 1..Len(UpperCase) : UpperCase[i] = c
    THEN LowerCase[CHOOSE i \in 1..Len(UpperCase) : UpperCase[i] = c]
    ELSE c

LowerStr(s) == [i \in 1..Len(s) |-> Lower(s[i])]

\* int(c) for a digit, -1 for any other character.
DigitValue(c) ==
    IF c \in DigitSet THEN (CHOOSE i \in 1..Len(DigitChars) : DigitChars[i] = c) - 1
    ELSE -1

DigitValues(s) == [i \in 1..Len(s) |-> DigitValue(s[i])]

\* How many characters of s, from position i on, are in the class.
RECURSIVE Run(_, _, _)
Run(s, i, class) ==
    IF i >= 1 /\ i <= Len(s) /\ s[i] \in class THEN 1 + Run(s, i + 1, class) ELSE 0

\* s[i - 1:].startswith(sub), positions counted from 1.
SubstrAt(s, i, sub) ==
    /\ i >= 1
    /\ i + Len(sub) - 1 <= Len(s)
    /\ \A k \in 1..Len(sub) : s[i + k - 1] = sub[k]

\* s.replace(old, new) for a one-character old, computed half by half.
RECURSIVE Replace(_, _, _)
Replace(s, old, new) ==
    IF Len(s) = 0 THEN <<>>
    ELSE IF Len(s) = 1 THEN (IF s[1] = old THEN new ELSE <<s[1]>>)
    ELSE Replace(SubSeq(s, 1, Len(s) \div 2), old, new)
         \o Replace(SubSeq(s, (Len(s) \div 2) + 1, Len(s)), old, new)

\* re.sub(r'[...]', new, s) for a class of single characters.
SubClass(s, class, new) == [i \in 1..Len(s) |-> IF s[i] \in class THEN new ELSE s[i]]

----------------------------------------------------------------------------
(* The page-path resolver (utils/filesystem.py, lines 9-102).  The graph   *)
(* directory is the set of the files it holds, each a directory name and a *)
(* file name; a path is the graph path, the directory and the file name.   *)

\* The month names of the patterns of lines 62-63 and of %b and %B, in
\* lower case.
MonthAbbr ==
    <<<<"j", "a", "n">>,
      <<"f", "e", "b">>,
      <<"m", "a", "r">>,
      <<"a", "p", "r">>,
      <<"m", "a", "y">>,
      <<"j", "u", "n">>,
      <<"j", "u", "l">>,
      <<"a", "u", "g">>,
      <<"s", "e", "p">>,
      <<"o", "c", "t">>,
      <<"n", "o", "v">>,
      <<"d", "e", "c">>>>

MonthFull ==
    <<<<"j", "a", "n", "u", "a", "r", "y">>,
      <<"f", "e", "b", "r", "u", "a", "r", "y">>,
      <<"m", "a", "r", "c", "h">>,
      <<"a", "p", "r", "i", "l">>,
      <<"m", "a", "y">>,
      <<"j", "u", "n", "e">>,
      <<"j", "u", "l", "y">>,
      <<"a", "u", "g", "u", "s", "t">>,
      <<"s", "e", "p", "t", "e", "m", "b", "e", "r">>,
      <<"o", "c", "t", "o", "b", "e", "r">>,
      <<"n", "o", "v", "e", "m", "b", "e", "r">>,
      <<"d", "e", "c", "e", "m", "b", "e", "r">>>>

\* (st|nd|rd|th)
OrdinalSuffixes == {<<"s", "t">>, <<"n", "d">>, <<"r", "d">>, <<"t", "h">>}

\* The characters line 28 replaces.
Problematic == {"<", ">", ":", "\"", "|", "?", "*"}

\* Lines 25 and 28: safe_name.
SafeName(page_name) ==
    SubClass(Replace(page_name, "/", <<"_", "_", "_">>), Problematic, "_")

DotMd == <<".", "m", "d">>

\* The longest file name the file system takes.
NAME_MAX == 255

\* os.stat of a file of the graph directory.
Stat(dir, file, fs) ==
    IF Len(file) > NAME_MAX THEN "ENAMETOOLONG"
    ELSE IF [dir |-> dir, file |-> file] \in fs THEN "file" ELSE "ENOENT"

\* Path.exists(): True for a file, False for ENOENT; any other errno is
\* raised again by the pathlib of Python up to 3.11 and is False from 3.12.
PathExists(dir, file, fs, reraises) ==
    CASE Stat(dir, file, fs) = "file" -> "True"
      [] Stat(dir, file, fs) = "ENOENT" -> "False"
      [] OTHER -> IF reraises THEN "OSError" ELSE "False"

\* The tail \s+\d{1,2}(st|nd|rd|th)?,\s+\d{4}$ of the patterns of lines
\* 62-63, from position i of a lower-cased name; the second pattern has no
\* suffix group.  $ also matches before a final newline.
MatchesDayYear(s, i, suffix_allowed) ==
    LET j == i + Run(s, i, Whitespace)
        k == j + Run(s, j, DigitSet)
        c == IF suffix_allowed /\ \E x \in OrdinalSuffixes : SubstrAt(s, k, x)
             THEN k + 2 ELSE k
        y == c + 1 + Run(s, c + 1, Whitespace)
    IN  /\ j > i
        /\ k - j \in {1, 2}
        /\ SubstrAt(s, c, <<",">>)
        /\ y > c + 1
        /\ Run(s, y, DigitSet) >= 4
        /\ \/ y + 3 = Len(s)
           \/ y + 4 = Len(s) /\ s[Len(s)] = "\n"

\* is_journal_page_name, lines 50-69.
IsJournalPageName(page_name) ==
    LET s == LowerStr(page_name)
    IN  \/ \E m \in 1..12 : /\ SubstrAt(s, 1, MonthAbbr[m])
                            /\ MatchesDayYear(s, Len(MonthAbbr[m]) + 1, TRUE)
        \/ \E m \in 1..12 : /\ SubstrAt(s, 1, MonthFull[m])
                            /\ MatchesDayYear(s, Len(MonthFull[m]) + 1, FALSE)

\* Line 88: re.sub(r'(\d+)(st|nd|rd|th)', r'\1', s), case-sensitive: the
\* suffix that follows a run of digits is dropped.
RECURSIVE StripOrdinals(_, _)
StripOrdinals(s, i) ==
    IF i > Len(s) THEN <<>>
    ELSE IF s[i] \notin DigitSet THEN <<s[i]>> \o StripOrdinals(s, i + 1)
    ELSE LET k == i + Run(s, i, DigitSet)
         IN  SubSeq(s, i, k - 1)
             \o StripOrdinals(s, IF \E x \in OrdinalSuffixes : SubstrAt(s, k, x)
                                 THEN k + 2 ELSE k)

\* The formats of line 85: the month directive and the literal that follows
\* %d.
Formats ==
    <<[month |-> "%b", suffix |-> <<>>],
      [month |-> "%B", suffix |-> <<>>],
      [month |-> "%b", suffix |-> <<"s", "t">>],
      [month |-> "%b", suffix |-> <<"n", "d">>],
      [month |-> "%b", suffix |-> <<"r", "d">>],
      [month |-> "%b", suffix |-> <<"t", "h">>]>>

\* datetime.strptime(s, fmt) for a format of line 85, letters compared
\* without case, step by step.  The last step: a year 0 or a day the
\* month does not have is a ValueError (ok: FALSE).
DateOf(year, m, d) ==
    IF year < 1 \/ d > DaysInMonth(year, m) THEN NoDate
    ELSE [ok |-> TRUE, y |-> year, m |-> m, d |-> d]

\* After the comma at position c - 1: white space, four digits of year and
\* nothing more.
ParseYear(ls, ds, c, m, d) ==
    LET y == c + Run(ls, c, Whitespace)
    IN  IF y = c \/ Run(ls, y, DigitSet) < 4 \/ y + 3 # Len(ls) THEN NoDate
        ELSE DateOf(1000 * ds[y] + 100 * ds[y + 1] + 10 * ds[y + 2] + ds[y + 3], m, d)

\* %d at position j: the first alternative that the suffix and the comma
\* follow.
ParseDay(ls, ds, j, alts, m, suffix) ==
    LET usable == {a \in 1..Len(alts) :
                      SubstrAt(ls, j + alts[a].len, suffix \o <<",">>)}
    IN  IF usable = {} THEN NoDate
        ELSE LET day == alts[CHOOSE a \in usable : \A b \in usable : a <= b]
             IN  ParseYear(ls, ds, j + day.len + Len(suffix) + 1, m, day.value)

\* After the month name, which ends at position i - 1: white space, the day.
ParseFromMonth(ls, ds, i, m, suffix) ==
    LET j == i + Run(ls, i, Whitespace)
    IN  IF j = i THEN NoDate
        ELSE ParseDay(ls, ds, j, DayMatches(ds, j), m, suffix)

StrptimeName(s, fmt) ==
    LET ls == LowerStr(s)
        names == IF fmt.month = "%b" THEN MonthAbbr ELSE MonthFull
        months == {m \in 1..12 : SubstrAt(ls, 1, names[m])}
    IN  IF months = {} THEN NoDate
        ELSE LET m == CHOOSE x \in months : TRUE
             IN  ParseFromMonth(ls, DigitValues(ls), Len(names[m]) + 1, m, fmt.suffix)

\* date_obj.strftime("%Y_%m_%d.md"), line 92, for a year of four digits.
JournalFileName(date) ==
    [i \in 1..Len(DigitsOf(date.y)) |-> DigitChars[DigitsOf(date.y)[i] + 1]]
    \o <<"_", DigitChars[(date.m \div 10) + 1], DigitChars[(date.m % 10) + 1]>>
    \o <<"_", DigitChars[(date.d \div 10) + 1], DigitChars[(date.d % 10) + 1]>>
    \o DotMd

\* convert_journal_name_to_path, lines 72-102: the journal file of the first
\* format that parses the cleaned name and whose file exists, None without
\* one; every exception is swallowed (lines 97-100).
ConvertJournalNameToPath(journal_name, graph_path, fs) ==
    LET cleaned_name == StripOrdinals(journal_name, 1)
        hits == {f \in 1..Len(Formats) :
                    /\ StrptimeName(cleaned_name, Formats[f]).ok
                    /\ Stat("journals",
                            JournalFileName(StrptimeName(cleaned_name, Formats[f])),
                            fs) = "file"}
    IN  IF hits = {} THEN NoPath
        ELSE [root |-> graph_path, dir |-> "journals",
              file |-> JournalFileName(
                           StrptimeName(cleaned_name,
                                        Formats[CHOOSE f \in hits : \A g \in hits : f <= g]))]

\* The directories that exist (os.path.exists, line 20).
RootsOnDisk == {"/graph"}

\* get_page_file_path, lines 9-47.
GetPageFilePath(page_name, graph_path, fs, reraises) ==
    LET file == SafeName(page_name) \o DotMd
        date_path == ConvertJournalNameToPath(page_name, graph_path, fs)
        Return(value) == [raised |-> None, value |-> value]
        Raise(error) == [raised |-> error, value |-> NoPath]
    IN  IF graph_path \in {None, ""} \/ graph_path \notin RootsOnDisk
        THEN Return(NoPath)
        ELSE IF PathExists("pages", file, fs, reraises) = "OSError"
        THEN Raise("OSError")
        ELSE IF PathExists("pages", file, fs, reraises) = "True"
        THEN Return([root |-> graph_path, dir |-> "pages", file |-> file])
        ELSE IF PathExists("journals", file, fs, reraises) = "OSError"
        THEN Raise("OSError")
        ELSE IF PathExists("journals", file, fs, reraises) = "True"
        THEN Return([root |-> graph_path, dir |-> "journals", file |-> file])
        ELSE IF IsJournalPageName(page_name) /\ date_path # NoPath
        THEN Return(date_path)
        ELSE Return(NoPath)

\* One call of get_page_file_path.
CallGetPageFilePath ==
    /\ fpc = "ready"
    /\ fpc' = "done"
    /\ \E reraises \in BOOLEAN :
           found' = GetPageFilePath(arg_page_name, arg_graph_path, files, reraises)
    /\ UNCHANGED <<arg_page_name, arg_graph_path, files, notPathVars>>

\* The page names the resolver is called with.
PathPageNames ==
    {<<"P", "a", "r", "e", "n", "t", "/", "C", "h", "i", "l", "d">>,
     <<"a", ":", "b">>,
     <<"D", "e", "c", " ", "1", "s", "t", ",", " ", "2", "0", "2", "4">>,
     <<"D", "e", "c", "e", "m", "b", "e", "r", " ", "1", ",", " ", "2", "0", "2", "4">>,
     <<"d", "e", "c", " ", "1", "S", "T", ",", " ", "2", "0", "2", "4">>,
     <<"D", "e", "c", " ", "3", "2", "n", "d", ",", " ", "2", "0", "2", "4">>,
     <<"F", "e", "b", " ", "3", "0", ",", " ", "2", "0", "2", "4">>,
     <<"D", "e", "c", "e", "m", "b", "e", "r", " ", "1", "s", "t", ",", " ", "2", "0", "2", "4">>,
     <<"N", "o", "t", "e", "s">>,
     <<"2", "0", "2", "4", "_", "1", "2", "_", "0", "1">>,
     <<"M", "a", "y", " ", "3", ",", " ", "2", "0", "2", "4">>,
     <<"D", "e", "c", " ", "1", "s", "t", ",", " ", "2", "0", "2", "4", "\n">>,
     [i \in 1..300 |-> "x"]}

\* The graph paths it is called with: unset, empty, a directory that exists
\* and one that does not.
GraphPaths == {None, "", "/graph", "/missing"}

\* The files the graph directory may hold.
FilePool ==
    {[dir |-> "pages",
      file |-> <<"P", "a", "r", "e", "n", "t", "_", "_", "_", "C", "h", "i", "l", "d", ".", "m", "d">>],
     [dir |-> "journals",
      file |-> <<"P", "a", "r", "e", "n", "t", "_", "_", "_", "C", "h", "i", "l", "d", ".", "m", "d">>],
     [dir |-> "pages",
      file |-> <<"a", "_", "b", ".", "m", "d">>],
     [dir |-> "pages",
      file |-> <<"D", "e", "c", " ", "1", "s", "t", ",", " ", "2", "0", "2", "4", ".", "m", "d">>],
     [dir |-> "journals",
      file |-> <<"2", "0", "2", "4", "_", "1", "2", "_", "0", "1", ".", "m", "d">>],
     [dir |-> "journals",
      file |-> <<"2", "0", "2", "4", "_", "0", "5", "_", "0", "3", ".", "m", "d">>],
     [dir |-> "pages",
      file |-> <<"N", "o", "t", "e", "s", ".", "m", "d">>],
     [dir |-> "journals",
      file |-> <<"D", "e", "c", "e", "m", "b", "e", "r", " ", "1", ",", " ", "2", "0", "2", "4", ".", "m", "d">>]}

InitPath ==
    /\ arg_page_name \in PathPageNames
    /\ arg_graph_path \in GraphPaths
    /\ files \in SUBSET FilePool
    /\ fpc = "ready"
    /\ found = [raised |-> None, value |-> NoPath]
    /\ cache = EmptyCache
    /\ ttl = 1
    /\ now = 0
    /\ last = NoLast
    /\ ConcIdle
    /\ GraphIdle
    /\ JournalsIdle
    /\ StartupIdle
    /\ TemplatesIdle

NextPath == CallGetPageFilePath

SpecPath == InitPath /\ [][NextPath]_vars

----------------------------------------------------------------------------
(* The start of the server (config.py and __init__.py).  Importing the     *)
(* package runs the body of class Config, which reads the environment;     *)
(* main() then logs and runs the server, which serves resource requests.   *)

\* Config.validate, config.py lines 21-25: the error it raises for a graph
\* path, None when it returns.
Validate(graph_path) ==
    IF graph_path \notin {None, ""} /\ graph_path \notin RootsOnDisk
    THEN "ValueError" ELSE None

\* The resources the package registers (__init__.py, lines 14-20).
Resources ==
    {"get_graph_info", "get_recent_pages", "get_recent_journals", "get_templates",
     "get_graph_structure"}

\* import logseq_mcp: config.py line 14 reads the environment, line 29
\* creates the singleton; nothing is validated.
ImportPackage ==
    /\ spc = "start"
    /\ spc' = "imported"
    /\ LOGSEQ_GRAPH_PATH' = environ
    /\ UNCHANGED <<environ, served, notStartupVars>>

\* main(), __init__.py lines 42-45: log(...) and mcp.run(transport="stdio").
Main ==
    /\ spc = "imported"
    /\ spc' = "serving"
    /\ UNCHANGED <<environ, LOGSEQ_GRAPH_PATH, served, notStartupVars>>

\* The running server serves a resource request: the producer reads
\* config.LOGSEQ_GRAPH_PATH (resources.py, lines 41, 86 and 139).
ServeRequest ==
    /\ spc = "serving"
    /\ Len(served) < MaxRequests
    /\ \E r \in Resources :
           served' = Append(served, [resource |-> r, graph_path |-> LOGSEQ_GRAPH_PATH])
    /\ UNCHANGED <<environ, LOGSEQ_GRAPH_PATH, spc, notStartupVars>>

InitStartup ==
    /\ environ \in GraphPaths
    /\ LOGSEQ_GRAPH_PATH = None
    /\ spc = "start"
    /\ served = <<>>
    /\ cache = EmptyCache
    /\ ttl = 1
    /\ now = 0
    /\ last = NoLast
    /\ ConcIdle
    /\ GraphIdle
    /\ JournalsIdle
    /\ PathIdle
    /\ TemplatesIdle

NextStartup ==
    \/ ImportPackage
    \/ Main
    \/ ServeRequest

SpecStartup == InitStartup /\ [][NextStartup]_vars

----------------------------------------------------------------------------
(* get_templates (resources.py, lines 178-226).  A dict is a function on   *)
(* its keys, so that two dicts are equal when they have the same keys and  *)
(* the same values; texts that become names are sequences of characters.   *)

\* {}
EmptyDict == [k \in {} |-> None]

\* d.get(key, default)
Get(d, key, default) == IF key \in DOMAIN d THEN d[key] ELSE default

\* s.split('\n')[0]
FirstLine(s) ==
    IF HasChar(s, "\n")
    THEN SubSeq(s, 1, (CHOOSE i \in 1..Len(s) :
                         s[i] = "\n" /\ \A j \in 1..(i - 1) : s[j] # "\n") - 1)
    ELSE s

\* Line 188.
template_page_names == <<"Templates", "templates", "Template", "template">>

\* Lines 200-206: the entry of a top-level block of the template page.
PageTemplateInfo(block, page_name) ==
    [name |-> Truncate(FirstLine(Get(block, "content", <<>>)), 50),
     id |-> Get(block, "id", None),
     content |-> Get(block, "content", <<>>),
     source_page |-> page_name,
     properties |-> Get(block, "properties", EmptyDict)]

\* Lines 215-221: the entry of a block the property search returned.
SearchTemplateInfo(block) ==
    [name |-> Get(Get(block, "properties", EmptyDict), "template",
                  <<"U", "n", "n", "a", "m", "e", "d", " ", "T", "e", "m", "p", "l", "a", "t", "e">>),
     id |-> Get(block, "id", None),
     content |-> Get(block, "content", <<>>),
     source_page |-> Get(Get(block, "page", EmptyDict), "name", "Unknown"),
     properties |-> Get(block, "properties", EmptyDict)]

\* Lines 198-207: the entries of the top-level blocks, in order.
RECURSIVE PageTemplates(_, _)
PageTemplates(blocks, page_name) ==
    IF blocks = <<>> THEN <<>>
    ELSE (IF Get(Head(blocks), "level", 1) = 1
          THEN <<PageTemplateInfo(Head(blocks), page_name)>> ELSE <<>>)
         \o PageTemplates(Tail(blocks), page_name)

\* Lines 213-222: each block of the search is appended unless the block
\* itself, as a dict, is an element of the list.
RECURSIVE WithSearchTemplates(_, _)
WithSearchTemplates(list, blocks) ==
    IF blocks = <<>> THEN list
    ELSE WithSearchTemplates(
             IF Head(blocks) \in Range(list) THEN list
             ELSE Append(list, SearchTemplateInfo(Head(blocks))),
             Tail(blocks))

\* The closure fetch_templates, lines 186-224: the blocks of the first
\* template page that exists, then the blocks of the search.
FetchTemplates(pages, blocks, search) ==
    LET there == {i \in 1..Len(template_page_names) : template_page_names[i] \in pages}
    IN  WithSearchTemplates(
            IF there = {} THEN <<>>
            ELSE PageTemplates(blocks,
                     template_page_names[CHOOSE i \in there : \A j \in there : i <= j]),
            search)

\* get_templates on an empty cache: cache.get_or_fetch("templates",
\* fetch_templates), line 226.
RequestTemplates ==
    /\ tpc = "ready"
    /\ tpc' = "done"
    /\ templates' = FetchTemplates(existing_pages, page_blocks, template_blocks)
    /\ cache' = CacheAfterStore(cache, "templates",
                                FetchTemplates(existing_pages, page_blocks, template_blocks),
                                now)
    /\ UNCHANGED <<existing_pages, page_blocks, template_blocks, notTemplateVars>>

\* The blocks of the remote graph: two top-level blocks, one of them
\* carrying the template property, and a nested block.
RemoteBlocks ==
    {[id |-> 1, content |-> <<"m", "e", "e", "t", "i", "n", "g", "\n", "n", "o", "t", "e", "s">>, level |-> 1,
      properties |-> [template |-> <<"m", "e", "e", "t", "i", "n", "g">>],
      page |-> [name |-> "Templates"]],
     [id |-> 2, content |-> <<"d", "a", "i", "l", "y">>, properties |-> EmptyDict],
     [id |-> 3, content |-> <<"t", "a", "s", "k">>, level |-> 2,
      properties |-> [template |-> <<"t", "o", "d", "o">>],
      page |-> [name |-> "Projects"]]}

\* What the search may return besides: a result that has the keys of an
\* entry of the list.
SearchBlocks ==
    RemoteBlocks
    \cup {[name |-> <<"m", "e", "e", "t", "i", "n", "g">>, id |-> 1, content |-> <<"m", "e", "e", "t", "i", "n", "g", "\n", "n", "o", "t", "e", "s">>,
           source_page |-> "Templates",
           properties |-> [template |-> <<"m", "e", "e", "t", "i", "n", "g">>]]}

\* The lists of at most MaxBlocks blocks of a pool, no block id twice.
BlockListsOf(pool) ==
    UNION {{l \in [1..n -> pool] : \A i, j \in 1..n : i # j => l[i].id # l[j].id}
           : n \in 0..MaxBlocks}

\* The pages that exist: none, the first name, the last name, two names.
ExistingPages == {{}, {"Templates"}, {"template"}, {"templates", "Template"}}

InitTemplates ==
    /\ existing_pages \in ExistingPages
    /\ page_blocks \in BlockListsOf(RemoteBlocks)
    /\ template_blocks \in BlockListsOf(SearchBlocks)
    /\ tpc = "ready"
    /\ templates = <<>>
    /\ cache = EmptyCache
    /\ ttl = 1
    /\ now = 0
    /\ last = NoLast
    /\ ConcIdle
    /\ GraphIdle
    /\ JournalsIdle
    /\ PathIdle
    /\ StartupIdle

NextTemplates == RequestTemplates

SpecTemplates == InitTemplates /\ [][NextTemplates]_vars

----------------------------------------------------------------------------
(* Claims about the cache, checked under Spec.                             *)

\* The entry of key k in cache c, stored at T, is expired at time t.
ExpiredAt(c, k, t) == k \notin DOMAIN c \/ t >= c[k].timestamp + ttl

\* Every key but k has in d the entry it has in c.
OthersKept(c, d, k) ==
    /\ (DOMAIN d) \ {k} = (DOMAIN c) \ {k}
    /\ \A x \in (DOMAIN c) \ {k} : d[x] = c[x]

\* C1: a get_or_fetch(k, f) whose f returns, made while the entry of k stored
\* at T is still valid (now - T < ttl), returns the stored value without
\* calling f and leaves the cache alone; made with no entry or with
\* now - T >= ttl (exactly at TTL age counts as expired), it calls f exactly
\* once, stores (result, now) under k and returns that result.
C1_HitWithinTtlElseOneFetch ==
    (last.op = "get_or_fetch" /\ last.raised = None) =>
        IF ExpiredAt(last.pre, last.key, last.t0)
        THEN /\ last.calls = 1
             /\ last.key \in DOMAIN cache
             /\ cache[last.key] = [data |-> last.result, timestamp |-> now]
             /\ OthersKept(last.pre, cache, last.key)
        ELSE /\ last.calls = 0
             /\ last.result = last.pre[last.key].data
             /\ cache = last.pre

\* C1's case: an entry exactly at TTL age is fetched again and replaced.
C1_Witness ==
    /\ last.op = "get_or_fetch"
    /\ last.raised = None
    /\ last.key \in DOMAIN last.pre
    /\ last.t0 - last.pre[last.key].timestamp = ttl
    /\ last.calls = 1
    /\ last.result # last.pre[last.key].data
    /\ cache[last.key].data = last.result

\* C2: invalidate(k) with a key k, the empty string included, removes
\* exactly the entry of k and keeps every other entry, so that a
\* get_or_fetch(k, f) right after it calls f; invalidate() with no key
\* removes every entry.
C2_InvalidateRemovesExactlyTheKey ==
    /\ (last.op = "invalidate" /\ last.given) =>
            /\ last.key \notin DOMAIN cache
            /\ OthersKept(last.pre, cache, last.key)
    /\ (last.op = "invalidate" /\ ~last.given) => cache = EmptyCache
    /\ (/\ last.op = "get_or_fetch"
        /\ last.after.op = "invalidate"
        /\ last.after.given
        /\ last.after.key = last.key) => last.calls = 1

\* C3: when the fetcher raises, the exception reaches the caller, the
\* fetcher ran once and only once, no value comes back, and the cache is
\* exactly what it was: no entry for k appears, an expired entry of k keeps
\* its value and timestamp, and no other key changes.
C3_RaisingFetchLeavesCacheAlone ==
    (last.op = "get_or_fetch" /\ last.raised # None) =>
        /\ last.raised = "Exception"
        /\ last.calls = 1
        /\ last.result = None
        /\ cache = last.pre

\* C3's case: the fetcher raised while an expired entry of k was stored.
C3_Witness ==
    /\ last.op = "get_or_fetch"
    /\ last.raised = "Exception"
    /\ last.key \in DOMAIN last.pre
    /\ ExpiredAt(last.pre, last.key, last.t0)
    /\ cache[last.key] = last.pre[last.key]

\* C4: get_recent_pages on a miss runs its fetch and stores the result
\* under "recent_pages_20", get_recent_journals under "recent_journals_7";
\* within the TTL a second call returns the stored value without fetching.
C4_RecentProducersCacheUnderTheirKey ==
    \A p \in {<<"get_recent_pages", "recent_pages_20">>,
              <<"get_recent_journals", "recent_journals_7">>} :
        last.op = p[1] =>
            IF ExpiredAt(last.pre, p[2], last.t0)
            THEN /\ last.calls = 1
                 /\ last.raised = None =>
                        /\ p[2] \in DOMAIN cache
                        /\ cache[p[2]].data = last.result
                        /\ OthersKept(last.pre, cache, p[2])
            ELSE /\ last.calls = 0
                 /\ last.result = last.pre[p[2]].data

----------------------------------------------------------------------------
(* Claims about concurrent requests, checked under SpecConcurrent.         *)

\* Both requests are for one key, both missed and both fetched and stored.
BothMissedSameKey ==
    /\ \A p \in Procs : pc[p] = "done" /\ req[p].calls = 1
    /\ req[1].key = req[2].key

\* C5: when two requests for one key both miss, both run the fetcher, and
\* whatever the interleaving, once both have returned the cache holds for
\* that key the result of one of the two fetches, that of the request that
\* stored last, and every other key has the entry it had at dispatch.
C5_DuplicateFetchLastWriteWins ==
    BothMissedSameKey =>
        LET k == req[1].key
            w == writes[Len(writes)]
        IN  /\ Len(writes) = 2
            /\ k \in DOMAIN cache
            /\ cache[k].data = req[w].data
            /\ cache[k].data \in {FetchResult(p) : p \in Procs}
            /\ \A p \in Procs : req[p].result = FetchResult(p)
            /\ OthersKept(cache0, cache, k)

\* C5's case: a duplicate fetch of one key, an entry of another key around.
C5_Witness ==
    /\ BothMissedSameKey
    /\ writes = <<2, 1>>
    /\ cache[req[1].key].data = FetchResult(1)
    /\ \E x \in DOMAIN cache0 : x # req[1].key

----------------------------------------------------------------------------
(* Claims about fetch_graph_structure, checked under SpecGraph.            *)

\* The loop of line 250 has gone through every page.
LoopDone == gpc \in {"report", "returned", "raised"}

\* Processing page i raised, in either remote query.
Failed(i) == answers[i].refs_raised \/ answers[i].blocks.raised

\* Page i has no linked reference and no block holding '[['.
Unlinked(i) ==
    /\ ~answers[i].refs_raised
    /\ answers[i].refs = 0
    /\ answers[i].blocks.asked
    /\ ~answers[i].blocks.raised
    /\ \A b \in 1..Len(answers[i].blocks.blocks) :
          ~HasPair(answers[i].blocks.blocks[b], "[", "[")

\* The names that have a link count.
Counted == {page_link_counts[j][1] : j \in 1..Len(page_link_counts)}

\* C6: a page whose processing raised, in the linked-references query or
\* in the blocks query, is in neither the orphan list nor the link counts
\* the ranking is made of, and every other page is counted with the number
\* of its references and is an orphan exactly when it is unlinked.
C6_FailedPageIsSkipped ==
    LoopDone =>
        \A i \in 1..Len(all_pages) :
            LET page_name == all_pages[i].name IN
            IF Failed(i)
            THEN /\ page_name \notin Range(orphaned_pages)
                 /\ page_name \notin Counted
            ELSE /\ <<page_name, answers[i].refs>> \in Range(page_link_counts)
                 /\ page_name \in Range(orphaned_pages) <=> Unlinked(i)

RECURSIVE SumOfCounts(_, _)
SumOfCounts(reported, keys) ==
    IF keys = {} THEN 0
    ELSE LET key == CHOOSE x \in keys : TRUE
         IN  reported[key].page_count + SumOfCounts(reported, keys \ {key})

\* C7: every page is in one bucket: a page with a '/' in its name under the
\* namespace that is its name up to the last '/', a page without under the
\* root; so root_pages is the number of pages without a '/', every page
\* with one is listed in its reported namespace, and root_pages plus the
\* reported page_count values is total_pages.
C7_EveryPageInItsBucket ==
    LoopDone =>
        LET reported == ReportedNamespaces(namespaces, Len(all_pages))
            slashed == {i \in 1..Len(all_pages) : HasChar(all_pages[i].name, "/")}
        IN  /\ RootPages(namespaces) = Len(all_pages) - Cardinality(slashed)
            /\ \A i \in slashed :
                 LET page_name == all_pages[i].name
                     ns == SubSeq(page_name, 1, LastIndexOf(page_name, "/") - 1)
                 IN  /\ ns \in DOMAIN reported
                     /\ page_name \in Range(reported[ns].pages)
            /\ RootPages(namespaces) + SumOfCounts(reported, DOMAIN reported)
                   = Len(all_pages)

\* C8: a page is reported orphaned exactly when its linked-reference query
\* returned no reference and none of its blocks holds '[['; a page with a
\* block holding '[[' or with a linked reference is not; and
\* orphaned_pages.count is the number of the orphaned pages.
C8_OrphanedIffUnlinked ==
    (gpc \in {"returned", "raised"}) =>
        /\ gpc = "returned"
        /\ structure.orphaned_pages.count
              = Cardinality({i \in 1..Len(all_pages) : Unlinked(i)})
        /\ \A i \in 1..Len(all_pages) :
              all_pages[i].name \in Range(structure.orphaned_pages.pages)
                  <=> Unlinked(i)

\* What the loop itself does about orphans, whatever becomes of the report:
\* the orphan list holds exactly the unlinked pages processed so far, in
\* page order.
OrphanListIsTheUnlinkedPages ==
    /\ Range(orphaned_pages) = {all_pages[i].name : i \in {j \in 1..Len(answers) : Unlinked(j)}}
    /\ Len(orphaned_pages) = Cardinality({j \in 1..Len(answers) : Unlinked(j)})

----------------------------------------------------------------------------
(* Claims about get_recent_journals, checked under SpecJournals.           *)

\* n is an 8-digit YYYYMMDD number of a day of the calendar.
IsYmd8(n) ==
    /\ n \in 10000000..99999999
    /\ (n \div 100) % 100 \in 1..12
    /\ n % 100 \in 1..DaysInMonth(n \div 10000, (n \div 100) % 100)

\* Page i is a journal page whose journalDay is such a day, at or after the
\* time seven days before dt.
Wanted(i, dt) ==
    LET page == jpages[i]
        n == page.journalDay
    IN  /\ page.journal
        /\ page.has_day
        /\ IsYmd8(n)
        /\ 86400 * (Ordinal(n \div 10000, (n \div 100) % 100, n % 100)
                      - (Ordinal(dt.y, dt.m, dt.d) - 7)) >= dt.secs

\* The list holds exactly the wanted pages, by journalDay descending.
IsTheRecentJournals(list, dt) ==
    /\ Range(list) = {jpages[i] : i \in {x \in 1..Len(jpages) : Wanted(x, dt)}}
    /\ Len(list) = Cardinality({x \in 1..Len(jpages) : Wanted(x, dt)})
    /\ \A k \in 1..(Len(list) - 1) : list[k].journalDay >= list[k + 1].journalDay

\* C10: with no graph path configured, get_recent_journals returns exactly
\* the journal pages whose journalDay is an 8-digit YYYYMMDD date on or
\* after now minus 7 days, by journalDay descending; a missing or
\* unparseable journalDay is skipped and is never an error.
C10_RecentJournalsByJournalDay ==
    jpc = "done" =>
        /\ jout.raised = None
        /\ IsTheRecentJournals(jout.value, jnow)

\* What the closure fetch_recent_journals computes, were it called: the
\* list C10 describes.
FetchRecentJournalsIsTheRecentJournals ==
    jpc # "idle" => IsTheRecentJournals(FetchRecentJournals(jpages, jnow), jnow)

----------------------------------------------------------------------------
(* Claims about get_page_file_path, checked under SpecPath.                *)

At(dir, file) == [dir |-> dir, file |-> file]

\* The name of 300 characters, which no file of the graph directory bears.
LongName == [i \in 1..300 |-> "x"]

\* The candidates of each name in the order of the claim, written out: the
\* file of the name under pages, the same under journals and, for a name of
\* journal shape that is a date, the journal file of that date.
Candidates(name) ==
    CASE name = <<"P", "a", "r", "e", "n", "t", "/", "C", "h", "i", "l", "d">> ->
            <<At("pages",
                  <<"P", "a", "r", "e", "n", "t", "_", "_", "_", "C", "h", "i", "l", "d", ".", "m", "d">>),
              At("journals",
                  <<"P", "a", "r", "e", "n", "t", "_", "_", "_", "C", "h", "i", "l", "d", ".", "m", "d">>)>>
      [] name = <<"a", ":", "b">> ->
            <<At("pages",
                  <<"a", "_", "b", ".", "m", "d">>),
              At("journals",
                  <<"a", "_", "b", ".", "m", "d">>)>>
      [] name = <<"D", "e", "c", " ", "1", "s", "t", ",", " ", "2", "0", "2", "4">> ->
            <<At("pages",
                  <<"D", "e", "c", " ", "1", "s", "t", ",", " ", "2", "0", "2", "4", ".", "m", "d">>),
              At("journals",
                  <<"D", "e", "c", " ", "1", "s", "t", ",", " ", "2", "0", "2", "4", ".", "m", "d">>),
              At("journals",
                  <<"2", "0", "2", "4", "_", "1", "2", "_", "0", "1", ".", "m", "d">>)>>
      [] name = <<"D", "e", "c", "e", "m", "b", "e", "r", " ", "1", ",", " ", "2", "0", "2", "4">> ->
            <<At("pages",
                  <<"D", "e", "c", "e", "m", "b", "e", "r", " ", "1", ",", " ", "2", "0", "2", "4", ".", "m", "d">>),
              At("journals",
                  <<"D", "e", "c", "e", "m", "b", "e", "r", " ", "1", ",", " ", "2", "0", "2", "4", ".", "m", "d">>),
              At("journals",
                  <<"2", "0", "2", "4", "_", "1", "2", "_", "0", "1", ".", "m", "d">>)>>
      [] name = <<"d", "e", "c", " ", "1", "S", "T", ",", " ", "2", "0", "2", "4">> ->
            <<At("pages",
                  <<"d", "e", "c", " ", "1", "S", "T", ",", " ", "2", "0", "2", "4", ".", "m", "d">>),
              At("journals",
                  <<"d", "e", "c", " ", "1", "S", "T", ",", " ", "2", "0", "2", "4", ".", "m", "d">>),
              At("journals",
                  <<"2", "0", "2", "4", "_", "1", "2", "_", "0", "1", ".", "m", "d">>)>>
      [] name = <<"D", "e", "c", " ", "3", "2", "n", "d", ",", " ", "2", "0", "2", "4">> ->
            <<At("pages",
                  <<"D", "e", "c", " ", "3", "2", "n", "d", ",", " ", "2", "0", "2", "4", ".", "m", "d">>),
              At("journals",
                  <<"D", "e", "c", " ", "3", "2", "n", "d", ",", " ", "2", "0", "2", "4", ".", "m", "d">>)>>
      [] name = <<"F", "e", "b", " ", "3", "0", ",", " ", "2", "0", "2", "4">> ->
            <<At("pages",
                  <<"F", "e", "b", " ", "3", "0", ",", " ", "2", "0", "2", "4", ".", "m", "d">>),
              At("journals",
                  <<"F", "e", "b", " ", "3", "0", ",", " ", "2", "0", "2", "4", ".", "m", "d">>)>>
      [] name = <<"D", "e", "c", "e", "m", "b", "e", "r", " ", "1", "s", "t", ",", " ", "2", "0", "2", "4">> ->
            <<At("pages",
                  <<"D", "e", "c", "e", "m", "b", "e", "r", " ", "1", "s", "t", ",", " ", "2", "0", "2", "4", ".", "m", "d">>),
              At("journals",
                  <<"D", "e", "c", "e", "m", "b", "e", "r", " ", "1", "s", "t", ",", " ", "2", "0", "2", "4", ".", "m", "d">>)>>
      [] name = <<"N", "o", "t", "e", "s">> ->
            <<At("pages",
                  <<"N", "o", "t", "e", "s", ".", "m", "d">>),
              At("journals",
                  <<"N", "o", "t", "e", "s", ".", "m", "d">>)>>
      [] name = <<"2", "0", "2", "4", "_", "1", "2", "_", "0", "1">> ->
            <<At("pages",
                  <<"2", "0", "2", "4", "_", "1", "2", "_", "0", "1", ".", "m", "d">>),
              At("journals",
                  <<"2", "0", "2", "4", "_", "1", "2", "_", "0", "1", ".", "m", "d">>)>>
      [] name = <<"M", "a", "y", " ", "3", ",", " ", "2", "0", "2", "4">> ->
            <<At("pages",
                  <<"M", "a", "y", " ", "3", ",", " ", "2", "0", "2", "4", ".", "m", "d">>),
              At("journals",
                  <<"M", "a", "y", " ", "3", ",", " ", "2", "0", "2", "4", ".", "m", "d">>),
              At("journals",
                  <<"2", "0", "2", "4", "_", "0", "5", "_", "0", "3", ".", "m", "d">>)>>
      [] name = <<"D", "e", "c", " ", "1", "s", "t", ",", " ", "2", "0", "2", "4", "\n">> ->
            <<At("pages",
                  <<"D", "e", "c", " ", "1", "s", "t", ",", " ", "2", "0", "2", "4", "\n", ".", "m", "d">>),
              At("journals",
                  <<"D", "e", "c", " ", "1", "s", "t", ",", " ", "2", "0", "2", "4", "\n", ".", "m", "d">>)>>
      [] name = LongName ->
            <<At("pages", LongName \o <<".", "m", "d">>),
              At("journals", LongName \o <<".", "m", "d">>)>>

\* The first candidate that exists, as a path under the root; None without.
FirstExisting(root, cands) ==
    LET there == {i \in 1..Len(cands) : cands[i] \in files}
    IN  IF there = {} THEN NoPath
        ELSE LET i == CHOOSE x \in there : \A z \in there : x <= z
             IN  [root |-> root, dir |-> cands[i].dir, file |-> cands[i].file]

RootAbsent == arg_graph_path \in {None, ""} \/ arg_graph_path # "/graph"

\* C9: get_page_file_path returns the first existing candidate in the fixed
\* priority order (absent without a graph root that exists, else
\* pages/{safeName}.md with '/' encoded as '___', else journals/{safeName}.md,
\* else the date-based journal file of a journal-shaped name, else absent),
\* and never raises.
C9_FirstExistingCandidateNeverRaises ==
    fpc = "done" =>
        /\ found.raised = None
        /\ found.value = IF RootAbsent THEN NoPath
                         ELSE FirstExisting(arg_graph_path, Candidates(arg_page_name))

\* What holds of the resolver: the priority order whenever it returns, and
\* no exception for a name whose file name the file system takes.
ReturnsFirstExistingCandidate ==
    fpc = "done" =>
        /\ found.raised = None =>
               found.value = IF RootAbsent THEN NoPath
                             ELSE FirstExisting(arg_graph_path, Candidates(arg_page_name))
        /\ found.raised # None =>
               /\ ~RootAbsent
               /\ arg_page_name = LongName
               /\ found.raised = "OSError"

\* The example of the specification: "Parent/Child" is found under pages,
\* ahead of its namesake under journals.
ParentChildFoundUnderPages ==
    /\ fpc = "done"
    /\ arg_page_name = <<"P", "a", "r", "e", "n", "t", "/", "C", "h", "i", "l", "d">>
    /\ At("journals", <<"P", "a", "r", "e", "n", "t", "_", "_", "_",
                        "C", "h", "i", "l", "d", ".", "m", "d">>) \in files
    /\ found.value # NoPath
    /\ found.value.dir = "pages"

\* The journal example: "Dec 1st, 2024" resolves to the journal file of its
\* date when no file bears its name.
JournalNameFoundByDate ==
    /\ fpc = "done"
    /\ arg_page_name = <<"D", "e", "c", " ", "1", "s", "t", ",", " ", "2", "0", "2", "4">>
    /\ found.value # NoPath
    /\ found.value.file = <<"2", "0", "2", "4", "_", "1", "2", "_", "0", "1", ".", "m", "d">>

\* The long name raising.
LongNameRaises == fpc = "done" /\ found.raised = "OSError"

----------------------------------------------------------------------------
(* Claims about the start of the server, checked under SpecStartup.        *)

\* C11: with LOGSEQ_GRAPH_PATH set to a path that does not exist on disk,
\* startup fails with a configuration error: the server never serves
\* resource requests with an invalid configured graph path.
C11_NeverServesWithInvalidGraphPath ==
    /\ spc = "serving" => Validate(LOGSEQ_GRAPH_PATH) = None
    /\ \A i \in 1..Len(served) : Validate(served[i].graph_path) = None

\* The server serving a request with a graph path that does not exist.
ServedWithMissingGraphPath ==
    /\ spc = "serving"
    /\ environ = "/missing"
    /\ served # <<>>
    /\ served[1].graph_path = "/missing"

----------------------------------------------------------------------------
(* Claims about get_templates, checked under SpecTemplates.                *)

\* C12: a block of the property search is appended only if it is not
\* already among the templates collected from the template page, so a block
\* that is a top-level block of the page and a result of the search appears
\* once: no two entries of the returned list share a block id.
C12_NoTwoEntriesShareABlockId ==
    tpc = "done" =>
        \A i, j \in 1..Len(templates) : i # j => templates[i].id # templates[j].id

\* A block of the page that the search returns too is listed twice.
PageBlockListedTwice ==
    /\ tpc = "done"
    /\ \E b \in Range(page_blocks) \cap Range(template_blocks) :
           \E i, j \in 1..Len(templates) :
               i < j /\ templates[i].id = b.id /\ templates[j].id = b.id

\* What holds of the list: the entries of the page's top-level blocks come
\* first and are never dropped, and a block of the search is left out only
\* when the block itself equals an entry of the list.
SearchBlockSkippedOnlyWhenEqualToAnEntry ==
    tpc = "done" =>
        \A k \in 1..Len(template_blocks) :
            \/ \E i \in 1..Len(templates) :
                   templates[i] = SearchTemplateInfo(template_blocks[k])
            \/ \E i \in 1..Len(templates) : templates[i] = template_blocks[k]

====
